---- MODULE Spec2Model ----
(***************************************************************************)
(* A model of the DuoTool audio engine (src/services/audioEngine.ts), the  *)
(* application that drives it (src/App.tsx, src/components) and the        *)
(* Bluetooth link service (src/unnamed/part_001).                          *)
(*                                                                         *)
(* Time is the audio clock ctx.currentTime, counted in ticks of 25 ms (the *)
(* scheduler's polling period).  The audio context is taken to be running, *)
(* so the host's timers and the audio clock advance together.  JavaScript  *)
(* runs every handler to completion, so each handler is one action.        *)
(***************************************************************************)
EXTENDS Integers, Sequences, FiniteSets, TLC

\* ------------------------------------------------------------------ bounds
\* The audio clock stops advancing at MaxTime ticks.
MaxTime == 5
\* The host runs a timer at most this many ticks after it is due.
MaxLate == 1
\* The caller makes at most this many calls of the metronome's methods, and
\* at most this many of the tuner's.
MaxCalls == 3
\* The analyser's frame holds this many samples (fftSize, 2048 in the code).
FrameLen == 6
\* The number of gestures the user makes.
MaxGestures == 4
\* The number of connect() calls in flight at once.
MaxConnects == 1
\* freqToNote is given pitch numbers from -MaxPitch to MaxPitch semitones.
MaxPitch == 70
\* An inbound line has at most this many fields.
MaxFields == 3

\* ------------------------------------------------------- program constants
\* const lookahead = 25.0 ms: one tick.
Lookahead == 1
\* const scheduleAheadTime = 0.1 s: four ticks.
ScheduleAheadTime == 4
\* this.nextNoteTime = ctx.currentTime + 0.1: four ticks.
StartDelay == 4
\* 60.0 seconds, in ticks of 25 ms.
TicksPerMinute == 2400
\* if (this.currentBeatInBar > 4) this.currentBeatInBar = 1
BeatsPerBar == 4
\* private bpm: number = 120
DefaultBpm == 120
\* 60.0 / 0 in IEEE arithmetic: a time later than every time of the model.
Infinity == 1000000

\* osc.stop(time + 0.1): a click sounds for four ticks.
ClickLength == 4

\* The tempos handed to the engine: 1200 and 2400 beats per minute are
\* intervals of 2 and 1 ticks; 0 and -1200 are the invalid tempos.
ValidTempos == {1200, 2400}
InvalidTempos == {0 - 1200, 0}

VARIABLES
    now,                 \* ctx.currentTime, in ticks
    nextNoteTime,        \* AudioEngine.nextNoteTime
    timerID,             \* AudioEngine.timerID (0 is null)
    isMetronomePlaying,  \* AudioEngine.isMetronomePlaying
    bpm,                 \* AudioEngine.bpm
    beatCallback,        \* AudioEngine.beatCallback (FALSE is null)
    currentBeatInBar,    \* AudioEngine.currentBeatInBar
    timers,              \* the host's pending setTimeout callbacks, oldest first
    oscillators,         \* the clicks handed to the audio clock and not yet over
    beats,               \* the beat numbers handed to scheduleNote since the last start
    lastOnBeat,          \* the click of the latest onBeat call
    sessionStart,        \* ctx.currentTime at the latest startMetronome call
    hung,                \* a scheduler pass is looping forever
    metroCall,           \* the last of startMetronome/stopMetronome to return
    calls,               \* the number of calls of the metronome's methods so far
    analyser,            \* AudioEngine.analyser (FALSE is null)
    microphoneStream,    \* AudioEngine.microphoneStream (0 is null)
    tunerFrameId,        \* AudioEngine.tunerFrameId (0 is null)
    tunerCallback,       \* AudioEngine.tunerCallback (FALSE is null)
    sourceNode,          \* AudioEngine.sourceNode (0 is null), named by its stream
    micRequests,         \* the getUserMedia requests startTuner is awaiting
    openStreams,         \* the microphone streams whose tracks are live
    connectedSources,    \* the source nodes connected to an analyser
    rafPending,          \* the host's pending requestAnimationFrame callbacks
    buffer,              \* the frame detectPitch read last
    freq,                \* what autoCorrelate returned for it
    pitchCalls,          \* the onPitch calls made in the latest display frame
    micError,            \* console.error("Mic access denied") was logged
    tunerPromise,        \* the promise the latest settled startTuner call returned
    tunerCall,           \* the last of startTuner/stopTuner to return
    tunerCalls,          \* the number of calls of the tuner's methods so far
    mode,                \* App: 'standalone' or 'connected'
    activeTab,           \* App: 'metronome' or 'tuner'
    connectionError,     \* App: an error banner is shown
    appBpm,              \* App: bpm
    isMetroPlaying,      \* App: isMetroPlaying
    isTunerActive,       \* App: isTunerActive
    device,              \* BluetoothServiceImpl.device (FALSE is null)
    gattConnected,       \* device.gatt.connected
    rxCharacteristic,    \* BluetoothServiceImpl.rxCharacteristic (FALSE is null)
    connectPending,      \* the connect() calls handleBluetoothToggle is awaiting
    remoteMetro,         \* the device was told START_METRO and not yet STOP_METRO
    remoteTuner,         \* the device was told START_TUNER and not yet STOP_TUNER
    gestures,            \* the number of user gestures so far
    currentBeat,         \* App: currentBeat
    tunerData,           \* App: tunerData, as the telemetry handler and
                         \* handleToggleTuner set it
    frequency,           \* the frequency handed to freqToNote
    estimate,            \* what freqToNote returned for it
    line,                \* the line the Bluetooth service handed to the data callback
    scan,                \* where autoCorrelate's lag scan ended on the frame read last
    op                   \* the handler that ran last

metroVars == <<now, nextNoteTime, timerID, isMetronomePlaying, bpm, beatCallback,
               currentBeatInBar, timers, oscillators, beats, lastOnBeat, sessionStart,
               hung, metroCall, calls>>

tunerVars == <<analyser, microphoneStream, tunerFrameId, tunerCallback, sourceNode,
               micRequests, openStreams, connectedSources, rafPending, buffer, freq,
               pitchCalls, micError, tunerPromise, tunerCall, tunerCalls>>

\* The application's React state (App.tsx), the Bluetooth service's fields
\* (BluetoothServiceImpl) and what the remote device has been told.
appVars == <<mode, activeTab, connectionError, appBpm, isMetroPlaying, isTunerActive,
             device, gattConnected, rxCharacteristic, connectPending, remoteMetro,
             remoteTuner, gestures>>

\* What the application displays.
displayVars == <<currentBeat, tunerData>>

\* The inputs and results of the functions checked on their own.
pureVars == <<frequency, estimate, line, scan>>

vars == <<metroVars, tunerVars, appVars, displayVars, pureVars, op>>

\* ------------------------------------------------------------- arithmetic
Max(a, b) == IF a >= b THEN a ELSE b

\* IEEE addition with Infinity: Infinity + x = Infinity.
Plus(a, b) == IF a = Infinity \/ b = Infinity THEN Infinity ELSE a + b

\* const secondsPerBeat = 60.0 / this.bpm, in whole ticks.
SecondsPerBeat(tempo) ==
    IF tempo = 0 THEN Infinity
    ELSE IF tempo > 0 THEN TicksPerMinute \div tempo
    ELSE 0 - (TicksPerMinute \div (0 - tempo))

\* ------------------------------------------------------------ host timers
SchedTimer(id, due) == [kind |-> "sched", id |-> id, due |-> due, beat |-> 0, time |-> 0]
BeatTimer(beat, time, due) == [kind |-> "beat", id |-> 0, due |-> due, beat |-> beat, time |-> time]

\* window.setTimeout returns a handle no pending timer has; the engine can
\* only compare handles, so the smallest unused positive number stands for it.
FreshId(ts, held) ==
    CHOOSE id \in 1..(Len(ts) + 2) :
        /\ id # held
        /\ \A i \in 1..Len(ts) : ts[i].id # id

\* window.clearTimeout(id)
ClearTimeout(ts, id) == SelectSeq(ts, LAMBDA t : t.id # id)

Remove(ts, i) == SubSeq(ts, 1, i - 1) \o SubSeq(ts, i + 1, Len(ts))

\* The host runs a timer once it is due, which may be late; pending timers
\* run in the order of their due times, and in the order they were set when
\* due together.
CanFire(i) ==
    /\ timers[i].due <= now
    /\ \A j \in 1..Len(timers) :
          \/ timers[j].due > timers[i].due
          \/ (timers[j].due = timers[i].due /\ j >= i)

NumSchedTimers(ts) == Cardinality({i \in 1..Len(ts) : ts[i].kind = "sched"})

\* ------------------------------------------------------------- metronome
\* The engine's fields a scheduler pass reads and writes.
Engine == [nextNoteTime |-> nextNoteTime, currentBeatInBar |-> currentBeatInBar,
           timerID |-> timerID, timers |-> timers, oscillators |-> oscillators,
           beats |-> beats, diverged |-> FALSE]

\* A scheduleNote that would arm the notification with no delay; the engine's
\* waits for the click.
ScheduleNoteUndelayed(e, beatNumber, time) ==
    [e EXCEPT !.oscillators = @ \cup {[beat |-> beatNumber, time |-> time]},
              !.beats = Append(@, beatNumber),
              !.timers = Append(@, BeatTimer(beatNumber, time, now))]

\* scheduleNote(beatNumber, time): the oscillator is started at `time` and the
\* onBeat notification is armed for Math.max(0, time - ctx.currentTime) later.
ScheduleNote(e, beatNumber, time) ==
    [e EXCEPT !.oscillators = @ \cup {[beat |-> beatNumber, time |-> time]},
              !.beats = Append(@, beatNumber),
              !.timers = Append(@, BeatTimer(beatNumber, time, now + Max(0, time - now)))]

\* nextNote()
NextNote(e, tempo) ==
    [e EXCEPT !.nextNoteTime = Plus(@, SecondsPerBeat(tempo)),
              !.currentBeatInBar = IF @ + 1 > BeatsPerBar THEN 1 ELSE @ + 1]

\* More iterations than any pass that ends can make: an interval is at least
\* one tick and a pass starts at most MaxTime + ScheduleAheadTime behind.
PassFuel == MaxTime + ScheduleAheadTime + 2

\* A pass that would schedule one click at most, an if in place of the while;
\* the engine's loops.
ScheduleOneClick(e, tempo, fuel) ==
    IF ~(e.nextNoteTime < now + ScheduleAheadTime) THEN e
    ELSE NextNote(ScheduleNote(e, IF e.currentBeatInBar = 0 THEN 1 ELSE e.currentBeatInBar,
                               e.nextNoteTime), tempo)

\* The while loop of scheduler(); ctx.currentTime does not change within a
\* task.  A loop that is still running when the fuel is spent never ends.
RECURSIVE SchedulerLoop(_, _, _)
SchedulerLoop(e, tempo, fuel) ==
    IF ~(e.nextNoteTime < now + ScheduleAheadTime) THEN e
    ELSE IF fuel = 0 THEN [e EXCEPT !.diverged = TRUE]
    ELSE SchedulerLoop(
            NextNote(ScheduleNote(e, IF e.currentBeatInBar = 0 THEN 1 ELSE e.currentBeatInBar,
                                  e.nextNoteTime), tempo),
            tempo, fuel - 1)

\* scheduler(): the loop, then the next poll is armed while playing.
Scheduler(e, tempo, playing) ==
    LET r == SchedulerLoop(e, tempo, PassFuel)
        id == FreshId(r.timers, r.timerID)
    IN  IF r.diverged \/ ~playing THEN r
        ELSE [r EXCEPT !.timerID = id,
                       !.timers = Append(@, SchedTimer(id, now + Lookahead))]

\* The engine after a scheduler pass that returns; a pass that never returns
\* leaves the page hung with the fields as they were when it began.
AfterPass(e0, r) ==
    /\ hung' = r.diverged
    /\ LET e == IF r.diverged THEN e0 ELSE r
       IN  /\ nextNoteTime' = e.nextNoteTime
           /\ currentBeatInBar' = e.currentBeatInBar
           /\ timerID' = e.timerID
           /\ timers' = e.timers
           /\ oscillators' = e.oscillators
           /\ beats' = e.beats

\* startMetronome(bpm, onBeat)
StartMetronome(tempo) ==
    /\ ~hung
    /\ calls < MaxCalls
    /\ calls' = calls + 1
    /\ LET e0 == [Engine EXCEPT !.currentBeatInBar = 0,
                                !.nextNoteTime = now + StartDelay,
                                !.beats = <<>>]
       IN  AfterPass(e0, Scheduler(e0, tempo, TRUE))
    /\ bpm' = tempo
    /\ beatCallback' = TRUE
    /\ isMetronomePlaying' = TRUE
    /\ metroCall' = "start"
    /\ sessionStart' = now
    /\ UNCHANGED <<now, lastOnBeat>>

\* stopMetronome()
StopMetronome ==
    /\ ~hung
    /\ calls < MaxCalls
    /\ calls' = calls + 1
    /\ isMetronomePlaying' = FALSE
    /\ IF timerID # 0
          THEN /\ timers' = ClearTimeout(timers, timerID)
               /\ timerID' = 0
          ELSE UNCHANGED <<timers, timerID>>
    /\ metroCall' = "stop"
    /\ UNCHANGED <<now, nextNoteTime, bpm, beatCallback, currentBeatInBar,
                   oscillators, beats, lastOnBeat, sessionStart, hung>>

\* An updateBPM that would drop the clicks and notifications already
\* scheduled, to schedule them again at the new tempo; the engine's does not.
UpdateBPMReschedule(tempo) ==
    /\ ~hung
    /\ calls < MaxCalls
    /\ calls' = calls + 1
    /\ bpm' = tempo
    /\ timers' = SelectSeq(timers, LAMBDA t : t.kind # "beat")
    /\ oscillators' = {}
    /\ UNCHANGED <<now, nextNoteTime, timerID, isMetronomePlaying, beatCallback,
                   currentBeatInBar, beats, lastOnBeat, sessionStart, hung, metroCall>>

\* updateBPM(bpm)
UpdateBPM(tempo) ==
    /\ ~hung
    /\ calls < MaxCalls
    /\ calls' = calls + 1
    /\ bpm' = tempo
    /\ UNCHANGED <<now, nextNoteTime, timerID, isMetronomePlaying, beatCallback,
                   currentBeatInBar, timers, oscillators, beats, lastOnBeat, sessionStart, hung,
                   metroCall>>

\* The polling timer set by scheduler() runs scheduler() again.
SchedulerTimerFires ==
    /\ ~hung
    /\ \E i \in 1..Len(timers) :
          /\ CanFire(i)
          /\ timers[i].kind = "sched"
          /\ LET e0 == [Engine EXCEPT !.timers = Remove(timers, i)]
             IN  AfterPass(e0, Scheduler(e0, bpm, isMetronomePlaying))
    /\ op' = "scheduler"
    /\ UNCHANGED <<tunerVars, appVars, displayVars, pureVars>>
    /\ UNCHANGED <<now, isMetronomePlaying, bpm, beatCallback, lastOnBeat, sessionStart,
                   metroCall, calls>>

\* A notification that would not look at the playing flag; the engine's does.
NotifyBeatUnguarded(t) == beatCallback

\* The notification timer set by scheduleNote() runs:
\* if (this.isMetronomePlaying && this.beatCallback) this.beatCallback(beatNumber)
NotifyBeat(t) == isMetronomePlaying /\ beatCallback

BeatTimerFires ==
    /\ ~hung
    /\ \E i \in 1..Len(timers) :
          /\ CanFire(i)
          /\ timers[i].kind = "beat"
          /\ timers' = Remove(timers, i)
          /\ IF NotifyBeat(timers[i])
                THEN /\ lastOnBeat' = [beat |-> timers[i].beat, time |-> timers[i].time]
                     /\ currentBeat' = timers[i].beat
                     /\ op' = "onBeat"
                ELSE /\ UNCHANGED <<lastOnBeat, currentBeat>>
                     /\ op' = "beatTimerSkipped"
    /\ UNCHANGED <<now, nextNoteTime, timerID, isMetronomePlaying, bpm, beatCallback,
                   currentBeatInBar, oscillators, beats, sessionStart, hung, metroCall,
                   calls>>
    /\ UNCHANGED <<tunerVars, appVars, tunerData, pureVars>>

\* The audio clock advances by one tick; an oscillator is gone once it has
\* stopped (osc.stop(time + 0.1)).
Tick ==
    /\ ~hung
    /\ now < MaxTime
    /\ \A i \in 1..Len(timers) : timers[i].due + MaxLate > now
    /\ now' = now + 1
    /\ oscillators' = {o \in oscillators : o.time + ClickLength > now + 1}
    /\ op' = "tick"
    /\ UNCHANGED <<nextNoteTime, timerID, isMetronomePlaying, bpm, beatCallback,
                   currentBeatInBar, timers, beats, lastOnBeat, sessionStart, hung, metroCall, calls>>
    /\ UNCHANGED <<tunerVars, appVars, displayVars, pureVars>>


\* ----------------------------------------------------------- autoCorrelate
\* A sample s of the Float32Array is the integer s * SampleScale.
SampleScale == 1000
\* this.getContext().sampleRate, in Hz.
SampleRate == 48000
\* The samples the model's frames are made of: full scale either way,
\* silence, and 0.005, which is under the noise gate.
SampleValues == {0 - 1000, 0, 5, 1000}
AllFrames == [1..FrameLen -> SampleValues]

Abs(x) == IF x < 0 THEN 0 - x ELSE x

RECURSIVE SumSeq(_)
SumSeq(s) == IF Len(s) = 0 THEN 0 ELSE Head(s) + SumSeq(Tail(s))

\* A gate that would let every frame through; the engine's does not.
GateOpen(buf) == FALSE

\* rms = Math.sqrt(sum of buf[i]^2 / buf.length); if (rms < 0.01) return -1.
\* Squared and scaled: sum of samples^2 < (0.01 * SampleScale)^2 * length.
TooWeak(buf) ==
    SumSeq([i \in 1..Len(buf) |-> buf[i] * buf[i]])
        < (SampleScale \div 100) * (SampleScale \div 100) * Len(buf)

\* correlation = 1 - (sum of |buf[i] - buf[i + offset]|) / bufferLength, as the
\* numerator of a fraction over CorrDen(buf).
CorrDen(buf) == SampleScale * Len(buf)
Correlation(buf, offset) ==
    CorrDen(buf) - SumSeq([i \in 1..(Len(buf) - offset) |-> Abs(buf[i] - buf[i + offset])])

\* correlations[k] when the scan is at `offset`: undefined outside the array,
\* the fill value 0 where the scan has not been yet.
CorrelationsAt(buf, k, offset) ==
    IF k < 0 \/ k >= Len(buf) THEN [defined |-> FALSE, v |-> 0]
    ELSE IF k > offset THEN [defined |-> TRUE, v |-> 0]
    ELSE [defined |-> TRUE, v |-> Correlation(buf, k)]

\* What autoCorrelate returns: -1, NaN, or sampleRate / lag with the lag a
\* fraction num / den.
NoPitch == [kind |-> "none", num |-> 0, den |-> 1]
NaN == [kind |-> "nan", num |-> 0, den |-> 1]
Lag(num, den) == [kind |-> "lag", num |-> num, den |-> den]

\* correlation > 0.9
IsGood(buf, c) == c * 10 > 9 * CorrDen(buf)

\* shift = (correlations[best + 1] - correlations[best - 1]) / correlations[best]
\* return sampleRate / (best + 8 * shift)
Refine(buf, best, offset) ==
    LET cp == CorrelationsAt(buf, best + 1, offset)
        cm == CorrelationsAt(buf, best - 1, offset)
        cb == CorrelationsAt(buf, best, offset)
    IN  IF ~cp.defined \/ ~cm.defined \/ ~cb.defined THEN NaN
        ELSE IF cb.v = 0 /\ cp.v = cm.v THEN NaN
        ELSE Lag(best * cb.v + 8 * (cp.v - cm.v), cb.v)

\* The first lag the scan looks at.
FirstOffset == 0

\* for (let offset = 0; offset < bufferLength; offset++) { ... }
RECURSIVE LagScan(_, _, _)
LagScan(buf, offset, st) ==
    IF offset >= Len(buf)
    THEN IF st.best_correlation * 100 > CorrDen(buf)
            THEN Lag(st.best_offset, 1)
            ELSE NoPitch
    ELSE LET c == Correlation(buf, offset)
         IN  IF IsGood(buf, c) /\ c > st.best_correlation
                THEN LagScan(buf, offset + 1,
                             [best_offset |-> offset, best_correlation |-> c, found |-> TRUE])
             ELSE IF st.found THEN Refine(buf, st.best_offset, offset)
             ELSE LagScan(buf, offset + 1, st)

\* autoCorrelate(buf, sampleRate)
AutoCorrelate(buf) ==
    IF TooWeak(buf) THEN NoPitch
    ELSE LagScan(buf, FirstOffset,
                 [best_offset |-> 0 - 1, best_correlation |-> 0, found |-> FALSE])

\* Where the scan of autoCorrelate ends and with what: at the gate before any
\* lag is looked at, at the `else if (foundGoodCorrelation)` return inside the
\* loop, with the lag the loop was at, or after the last lag, where the best
\* lag is converted when best_correlation > 0.01.
NoScan == [how |-> "none", offset |-> 0, best_offset |-> 0 - 1, converted |-> FALSE]

RECURSIVE ScanEnd(_, _, _)
ScanEnd(buf, offset, st) ==
    IF offset >= Len(buf)
    THEN [how |-> "end", offset |-> offset, best_offset |-> st.best_offset,
          converted |-> st.best_correlation * 100 > CorrDen(buf)]
    ELSE LET c == Correlation(buf, offset)
         IN  IF IsGood(buf, c) /\ c > st.best_correlation
                THEN ScanEnd(buf, offset + 1,
                             [best_offset |-> offset, best_correlation |-> c, found |-> TRUE])
             ELSE IF st.found
                THEN [how |-> "early", offset |-> offset, best_offset |-> st.best_offset,
                      converted |-> FALSE]
             ELSE ScanEnd(buf, offset + 1, st)

ScanOf(buf) ==
    IF TooWeak(buf)
    THEN [how |-> "gate", offset |-> 0, best_offset |-> 0 - 1, converted |-> FALSE]
    ELSE ScanEnd(buf, FirstOffset,
                 [best_offset |-> 0 - 1, best_correlation |-> 0, found |-> FALSE])

\* if (freq > -1): false of -1 and of NaN; sampleRate / lag is above -1 unless
\* the lag is negative and shorter than 1 / sampleRate.
AboveMinusOne(f) ==
    /\ f.kind = "lag"
    /\ \/ f.num * f.den >= 0
       \/ SampleRate * Abs(f.den) > Abs(f.num)

\* ------------------------------------------------------------- freqToNote
\* A positive frequency f is given by rel = 1200 * log2(f / 440), its distance
\* from 440 Hz in hundredths of a semitone; sign tells zero and negative
\* frequencies apart.  A pitch number is counted in hundredths of a semitone.
\* pitch = 12 * (Math.log(frequency / 440) / Math.log(2)) + 69
SemitonesPerOctave == 12
A4Pitch == 69
CentsPerSemitone == 100

\* const noteStrings = ["C", "C#", ...]
NoteStrings == <<"C", "C#", "D", "D#", "E", "F", "F#", "G", "G#", "A", "A#", "B">>

\* Math.log of zero is -Infinity and of a negative number NaN, and both pass
\* through the arithmetic that follows.
Pitch(f) ==
    IF f.sign = 1 THEN [kind |-> "num", h |-> f.rel + A4Pitch * CentsPerSemitone]
    ELSE IF f.sign = 0 THEN [kind |-> "-inf", h |-> 0]
    ELSE [kind |-> "nan", h |-> 0]

\* A rounding that would go down to the semitone below; Math.round does not.
RoundDown(h) == h \div CentsPerSemitone

\* Math.round(pitch): the nearest semitone, a tie going up.
MathRound(h) == (h + CentsPerSemitone \div 2) \div CentsPerSemitone

\* a % b of JavaScript: the remainder has the sign of a.
JsRemainder(a, b) == IF a >= 0 THEN a % b ELSE 0 - ((0 - a) % b)

\* noteStrings[noteIndex]: undefined outside the array.
NoteAt(noteIndex) ==
    IF noteIndex \in 0..(Len(NoteStrings) - 1) THEN NoteStrings[noteIndex + 1]
    ELSE "undefined"

\* freqToNote(frequency).  With pitch -Infinity or NaN, roundedPitch % 12 is
\* NaN, the lookup is undefined and cents is NaN.
FreqToNote(f) ==
    LET pitch == Pitch(f)
        roundedPitch == MathRound(pitch.h)
        noteIndex == JsRemainder(roundedPitch, SemitonesPerOctave)
    IN  IF pitch.kind = "num"
          THEN [note |-> NoteAt(noteIndex),
                cents |-> pitch.h - roundedPitch * CentsPerSemitone,
                centsIsNaN |-> FALSE]
          ELSE [note |-> "undefined", cents |-> 0, centsIsNaN |-> TRUE]

\* ------------------------------------------------------------------ tuner
Silence == [i \in 1..FrameLen |-> 0]
Tone == [i \in 1..FrameLen |-> IF i % 2 = 1 THEN 1000 ELSE 0 - 1000]
\* What the analyser delivers from a live microphone.
TunerFrames == {Silence, Tone}

\* The tuner's fields detectPitch reads and writes.
Tuner == [tunerFrameId |-> tunerFrameId, rafPending |-> rafPending,
          freq |-> freq, pitchCalls |-> pitchCalls]

\* requestAnimationFrame returns a handle no pending callback has.
FreshFrameId(pending, held) ==
    CHOOSE id \in 1..(Len(pending) + 2) :
        /\ id # held
        /\ \A i \in 1..Len(pending) : pending[i] # id

\* detectPitch() on the frame buf, with the analyser set.
DetectPitch(t, buf, callback) ==
    LET f == AutoCorrelate(buf)
        id == FreshFrameId(t.rafPending, t.tunerFrameId)
    IN  [t EXCEPT !.freq = f,
                  !.pitchCalls = IF AboveMinusOne(f) /\ callback THEN @ + 1 ELSE @,
                  !.tunerFrameId = id,
                  !.rafPending = Append(@, id)]

\* The callbacks of one display frame, oldest first.
RECURSIVE RunCallbacks(_, _, _, _)
RunCallbacks(t, n, buf, callback) ==
    IF n = 0 THEN t
    ELSE RunCallbacks(DetectPitch(t, buf, callback), n - 1, buf, callback)

\* The microphone is heard while the latest stream's tracks are live and its
\* source node is connected.
MicLive == microphoneStream \in openStreams /\ sourceNode \in connectedSources

FreshStream ==
    CHOOSE id \in 1..(Cardinality(openStreams \cup connectedSources) + 2) :
        id \notin openStreams \cup connectedSources /\ id # microphoneStream

\* startTuner(callback), up to the await of getUserMedia.
StartTuner ==
    /\ tunerCalls < MaxCalls
    /\ tunerCalls' = tunerCalls + 1
    /\ tunerCallback' = TRUE
    /\ micRequests' = micRequests + 1
    /\ tunerCall' = "start"
    /\ UNCHANGED <<analyser, microphoneStream, tunerFrameId, sourceNode, openStreams,
                   connectedSources, rafPending, buffer, freq, pitchCalls, micError,
                   tunerPromise>>

\* getUserMedia resolves: the rest of startTuner's try block.  The analyser
\* has heard nothing yet, so the first frame is silence.
MicGranted ==
    /\ micRequests > 0
    /\ micRequests' = micRequests - 1
    /\ microphoneStream' = FreshStream
    /\ sourceNode' = FreshStream
    /\ openStreams' = openStreams \cup {FreshStream}
    /\ connectedSources' = connectedSources \cup {FreshStream}
    /\ analyser' = TRUE
    /\ buffer' = Silence
    /\ LET t == DetectPitch([Tuner EXCEPT !.pitchCalls = 0], Silence, tunerCallback)
       IN  /\ tunerFrameId' = t.tunerFrameId
           /\ rafPending' = t.rafPending
           /\ freq' = t.freq
           /\ pitchCalls' = t.pitchCalls
    /\ tunerPromise' = "fulfilled"
    /\ op' = "micGranted"
    /\ UNCHANGED <<tunerCallback, micError, tunerCall, tunerCalls>>
    /\ UNCHANGED <<metroVars, appVars, displayVars, pureVars>>

\* How the promise of an async function settles whose try block threw into
\* catch (err) { console.error("Mic access denied", err) }: the catch block
\* returns, so the promise is fulfilled.
CaughtOutcome == "fulfilled"

\* getUserMedia rejects, the catch block of startTuner runs.
MicDenied ==
    /\ micRequests > 0
    /\ micRequests' = micRequests - 1
    /\ micError' = TRUE
    /\ tunerPromise' = CaughtOutcome
    /\ op' = "micDenied"
    /\ UNCHANGED <<analyser, microphoneStream, tunerFrameId, tunerCallback, sourceNode,
                   openStreams, connectedSources, rafPending, buffer, freq, pitchCalls,
                   tunerCall, tunerCalls>>
    /\ UNCHANGED <<metroVars, appVars, displayVars, pureVars>>

\* cancelAnimationFrame(id)
CancelAnimationFrame(pending, id) == SelectSeq(pending, LAMBDA x : x # id)

\* stopTuner()
StopTuner ==
    /\ tunerCalls < MaxCalls
    /\ tunerCalls' = tunerCalls + 1
    /\ rafPending' = IF tunerFrameId # 0
                        THEN CancelAnimationFrame(rafPending, tunerFrameId)
                        ELSE rafPending
    /\ openStreams' = IF microphoneStream # 0
                         THEN openStreams \ {microphoneStream}
                         ELSE openStreams
    /\ connectedSources' = IF sourceNode # 0
                              THEN connectedSources \ {sourceNode}
                              ELSE connectedSources
    /\ tunerCall' = "stop"
    /\ UNCHANGED <<analyser, microphoneStream, tunerFrameId, tunerCallback, sourceNode,
                   micRequests, buffer, freq, pitchCalls, micError, tunerPromise>>

\* One display frame: every pending requestAnimationFrame callback runs
\* detectPitch on the analyser's current frame.
AnimationFrame ==
    /\ Len(rafPending) > 0
    /\ analyser
    /\ \E buf \in (IF MicLive THEN TunerFrames ELSE {Silence}) :
          /\ buffer' = buf
          /\ LET t == RunCallbacks([Tuner EXCEPT !.rafPending = <<>>, !.pitchCalls = 0],
                                   Len(rafPending), buf, tunerCallback)
             IN  /\ tunerFrameId' = t.tunerFrameId
                 /\ rafPending' = t.rafPending
                 /\ freq' = t.freq
                 /\ pitchCalls' = t.pitchCalls
    /\ op' = "animationFrame"
    /\ UNCHANGED <<analyser, microphoneStream, tunerCallback, sourceNode, micRequests,
                   openStreams, connectedSources, micError, tunerPromise, tunerCall,
                   tunerCalls>>
    /\ UNCHANGED <<metroVars, appVars, displayVars, pureVars>>

\* ------------------------------------------------------ inbound telemetry
\* A line "KEY:value|KEY:value|..." is the sequence of its fields.  A number
\* is written with one decimal and counted in tenths: "440.0" is 4400,
\* "-7.5" is -75.  tunerData.frequency is in tenths of a hertz.
Field(key, num, text) == [key |-> key, num |-> num, text |-> text]

\* parseFloat(text) of a number with one decimal: the number.
ParseFloat(num) == num

\* parseInt(text): the digits before the decimal point, the sign kept.
ParseInt(num) == IF num >= 0 THEN num \div 10 ELSE 0 - ((0 - num) \div 10)

\* data.startsWith(key + ':')
StartsWith(data, key) == Len(data) > 0 /\ data[1].key = key

\* parts.find(p => p.startsWith(key + ':')): the first such part, or none.
Find(parts, key) ==
    LET is == {i \in 1..Len(parts) : parts[i].key = key}
    IN  IF is = {} THEN <<>>
        ELSE <<parts[CHOOSE i \in is : \A j \in is : i <= j]>>

\* The callback App hands to bluetoothService.onDataReceived.
OnDataReceived(data) ==
    IF StartsWith(data, "BEAT")
      THEN /\ currentBeat' = ParseInt(data[1].num)
           /\ UNCHANGED tunerData
    ELSE IF StartsWith(data, "FREQ")
      THEN LET f == Find(data, "FREQ")
               n == Find(data, "NOTE")
               c == Find(data, "CENTS")
           IN  /\ tunerData' =
                    [frequency |-> IF f = <<>> THEN 0 ELSE ParseFloat(f[1].num),
                     noteName |-> IF n = <<>> THEN "" ELSE n[1].text,
                     cents |-> IF c = <<>> THEN 0 ELSE ParseInt(c[1].num),
                     isActive |-> TRUE]
               /\ UNCHANGED currentBeat
    ELSE UNCHANGED <<currentBeat, tunerData>>

\* ---------------------------------------------------- application and link
\* The Bluetooth service (BluetoothServiceImpl) and the application (App).

\* sendCommand(cmd): without a write characteristic the command is dropped;
\* with one the device receives it. told is what the device had been told.
SendCommand(told, newState) == IF rxCharacteristic THEN newState ELSE told

\* cleanup()
Cleanup ==
    /\ device' = FALSE
    /\ rxCharacteristic' = FALSE

\* disconnect(): closes the link if it is up, then cleanup().
Disconnect ==
    /\ gattConnected' = FALSE
    /\ Cleanup

\* handleStartStopMetronome
HandleStartStopMetronome ==
    LET newState == ~isMetroPlaying IN
    /\ isMetroPlaying' = newState
    /\ IF mode = "connected"
         THEN /\ remoteMetro' = SendCommand(remoteMetro, newState)
              /\ UNCHANGED metroVars
              /\ UNCHANGED currentBeat
         ELSE /\ IF newState
                    THEN StartMetronome(appBpm) /\ UNCHANGED currentBeat
                    ELSE StopMetronome /\ currentBeat' = 1
              /\ UNCHANGED remoteMetro

\* handleToggleTuner
HandleToggleTuner ==
    LET newState == ~isTunerActive IN
    /\ isTunerActive' = newState
    /\ IF mode = "connected"
         THEN /\ remoteTuner' = SendCommand(remoteTuner, newState)
              /\ UNCHANGED tunerVars
              /\ UNCHANGED tunerData
         ELSE /\ IF newState
                    THEN StartTuner /\ UNCHANGED tunerData
                    ELSE /\ StopTuner
                         /\ tunerData' = [tunerData EXCEPT !.frequency = 0,
                                                           !.isActive = FALSE]
              /\ UNCHANGED remoteTuner

\* What a metronome handler, a tuner handler and a link handler can change.
metroSide == <<metroVars, isMetroPlaying, remoteMetro, currentBeat>>
tunerSide == <<tunerVars, isTunerActive, remoteTuner, tunerData>>
linkVars == <<device, gattConnected, rxCharacteristic, connectPending>>

\* One more gesture of the user.
Gesture ==
    /\ gestures < MaxGestures
    /\ gestures' = gestures + 1

\* The user presses the start/stop button of MetronomeUI, which is rendered
\* on the metronome tab only.
PressStartStop ==
    /\ Gesture
    /\ activeTab = "metronome"
    /\ HandleStartStopMetronome
    /\ op' = "pressStartStop"
    /\ UNCHANGED pureVars
    /\ UNCHANGED <<tunerSide, linkVars, mode, activeTab, connectionError, appBpm>>

\* The tempos MetronomeUI can hand to onBPMChange: the - and + buttons and
\* the two ends of the slider.
SliderMin == 40
SliderMax == 240
BpmInputs == {appBpm - 1, appBpm + 1, SliderMin, SliderMax}

\* handleBPMChange(newBpm), from a control of MetronomeUI.  In connected mode
\* it sends SET_BPM, which changes nothing the model tracks.
ChangeBPM(newBpm) ==
    /\ Gesture
    /\ activeTab = "metronome"
    /\ newBpm # appBpm
    /\ appBpm' = newBpm
    /\ IF mode = "connected"
         THEN UNCHANGED metroVars
         ELSE UpdateBPM(newBpm)
    /\ op' = "changeBPM"
    /\ UNCHANGED pureVars
    /\ UNCHANGED <<tunerSide, linkVars, mode, activeTab, connectionError,
                   isMetroPlaying, remoteMetro, currentBeat>>

\* The user presses the toggle of TunerUI, rendered on the tuner tab only.
PressToggleTuner ==
    /\ Gesture
    /\ activeTab = "tuner"
    /\ HandleToggleTuner
    /\ op' = "pressToggleTuner"
    /\ UNCHANGED pureVars
    /\ UNCHANGED <<metroSide, linkVars, mode, activeTab, connectionError, appBpm>>

\* The user selects the other tab: setActiveTab, and the effect on activeTab
\* runs both handlers for whatever the application shows as active.
SelectTab(tab) ==
    /\ Gesture
    /\ tab # activeTab
    /\ activeTab' = tab
    /\ IF isMetroPlaying THEN HandleStartStopMetronome ELSE UNCHANGED metroSide
    /\ IF isTunerActive THEN HandleToggleTuner ELSE UNCHANGED tunerSide
    /\ op' = "selectTab"
    /\ UNCHANGED pureVars
    /\ UNCHANGED <<linkVars, mode, connectionError, appBpm>>

\* handleBluetoothToggle up to its await: in connected mode it disconnects,
\* otherwise it calls connect() and waits.
PressBluetooth ==
    /\ Gesture
    /\ IF mode = "connected"
         THEN /\ Disconnect
              /\ mode' = "standalone"
              /\ connectionError' = FALSE
              /\ UNCHANGED connectPending
         ELSE /\ connectPending < MaxConnects
              /\ connectPending' = connectPending + 1
              /\ UNCHANGED <<device, gattConnected, rxCharacteristic, mode,
                             connectionError>>
    /\ op' = "pressBluetooth"
    /\ UNCHANGED pureVars
    /\ UNCHANGED <<metroSide, tunerSide, activeTab, appBpm>>

\* connect() resolves and handleBluetoothToggle continues: the link is up,
\* the mode is connected. The SET_BPM it then sends changes nothing the model
\* tracks.
ConnectSucceeds ==
    /\ connectPending > 0
    /\ connectPending' = connectPending - 1
    /\ device' = TRUE
    /\ gattConnected' = TRUE
    /\ rxCharacteristic' = TRUE
    /\ mode' = "connected"
    /\ connectionError' = FALSE
    /\ op' = "connectSucceeds"
    /\ UNCHANGED pureVars
    /\ UNCHANGED <<metroSide, tunerSide, activeTab, appBpm, gestures>>

\* The awaits of connect(), in order; a failure at one leaves what the
\* earlier ones assigned.
ConnectStages == {"requestDevice", "gattConnect", "getCharacteristic", "startNotifications"}

\* connect() throws at a stage, and the catch of handleBluetoothToggle runs.
ConnectFails(stage) ==
    /\ connectPending > 0
    /\ connectPending' = connectPending - 1
    /\ device' = IF stage = "requestDevice" THEN device ELSE TRUE
    /\ gattConnected' =
         IF stage \in {"requestDevice", "gattConnect"} THEN gattConnected ELSE TRUE
    /\ rxCharacteristic' =
         IF stage = "startNotifications" THEN TRUE ELSE rxCharacteristic
    /\ connectionError' = TRUE
    /\ mode' = "standalone"
    /\ op' = "connectFails"
    /\ UNCHANGED pureVars
    /\ UNCHANGED <<metroSide, tunerSide, activeTab, appBpm, gestures>>

\* The link drops: gattserverdisconnected, handleDisconnect runs cleanup().
\* Nothing of the application's state is touched.
LinkLost ==
    /\ device
    /\ gattConnected
    /\ gattConnected' = FALSE
    /\ Cleanup
    /\ op' = "linkLost"
    /\ UNCHANGED pureVars
    /\ UNCHANGED <<metroSide, tunerSide, connectPending, mode, activeTab,
                   connectionError, appBpm, gestures>>

\* ------------------------------------------------------------------ specs
\* The engine as constructed (field initialisers of class AudioEngine).
InitMetro ==
    /\ now = 0
    /\ nextNoteTime = 0
    /\ timerID = 0
    /\ isMetronomePlaying = FALSE
    /\ bpm = DefaultBpm
    /\ beatCallback = FALSE
    /\ currentBeatInBar = 0
    /\ timers = <<>>
    /\ oscillators = {}
    /\ beats = <<>>
    /\ lastOnBeat = [beat |-> 0, time |-> 0]
    /\ sessionStart = 0
    /\ hung = FALSE
    /\ metroCall = "none"
    /\ calls = 0

InitTuner ==
    /\ analyser = FALSE
    /\ microphoneStream = 0
    /\ tunerFrameId = 0
    /\ tunerCallback = FALSE
    /\ sourceNode = 0
    /\ micRequests = 0
    /\ openStreams = {}
    /\ connectedSources = {}
    /\ rafPending = <<>>
    /\ freq = NoPitch
    /\ pitchCalls = 0
    /\ micError = FALSE
    /\ tunerPromise = "none"
    /\ tunerCall = "none"
    /\ tunerCalls = 0

\* The application as mounted (the useState initial values of App) and the
\* Bluetooth service as constructed.
InitApp ==
    /\ mode = "standalone"
    /\ activeTab = "metronome"
    /\ connectionError = FALSE
    /\ appBpm = DefaultBpm
    /\ isMetroPlaying = FALSE
    /\ isTunerActive = FALSE
    /\ device = FALSE
    /\ gattConnected = FALSE
    /\ rxCharacteristic = FALSE
    /\ connectPending = 0
    /\ remoteMetro = FALSE
    /\ remoteTuner = FALSE
    /\ gestures = 0
    /\ currentBeat = 1
    /\ tunerData = [frequency |-> 0, noteName |-> "", cents |-> 0, isActive |-> FALSE]

\* Nothing has been handed to freqToNote or to the data callback.
InitPure ==
    /\ frequency = [sign |-> 1, rel |-> 0]
    /\ estimate = [note |-> "", cents |-> 0, centsIsNaN |-> FALSE]
    /\ line = <<>>
    /\ scan = NoScan

Init ==
    /\ InitMetro
    /\ InitTuner
    /\ InitApp
    /\ InitPure
    /\ buffer = Silence
    /\ op = "init"

\* The metronome driven through the engine's public methods.
CallStartMetronome(tempo) ==
    StartMetronome(tempo) /\ op' = "startMetronome" /\ UNCHANGED <<tunerVars, appVars, displayVars, pureVars>>
CallStopMetronome ==
    StopMetronome /\ op' = "stopMetronome" /\ UNCHANGED <<tunerVars, appVars, displayVars, pureVars>>
CallUpdateBPM(tempo) ==
    UpdateBPM(tempo) /\ op' = "updateBPM" /\ UNCHANGED <<tunerVars, appVars, displayVars, pureVars>>

NextMetro ==
    \/ \E tempo \in ValidTempos : CallStartMetronome(tempo)
    \/ \E tempo \in InvalidTempos : CallStartMetronome(tempo)
    \/ CallStopMetronome
    \/ \E tempo \in ValidTempos : CallUpdateBPM(tempo)
    \/ \E tempo \in InvalidTempos : CallUpdateBPM(tempo)
    \/ SchedulerTimerFires
    \/ BeatTimerFires
    \/ Tick

SpecMetro == Init /\ [][NextMetro]_vars

\* The tuner driven through the engine's public methods.
CallStartTuner == StartTuner /\ op' = "startTuner" /\ UNCHANGED <<metroVars, appVars, displayVars, pureVars>>
CallStopTuner == StopTuner /\ op' = "stopTuner" /\ UNCHANGED <<metroVars, appVars, displayVars, pureVars>>

NextTuner ==
    \/ CallStartTuner
    \/ CallStopTuner
    \/ MicGranted
    \/ MicDenied
    \/ AnimationFrame

SpecTuner == Init /\ [][NextTuner]_vars

\* detectPitch on every frame of the model: the analyser of a running tuner
\* holds any frame, and one display frame passes.
InitAuto ==
    /\ InitMetro
    /\ analyser = TRUE
    /\ microphoneStream = 1
    /\ tunerFrameId = 1
    /\ tunerCallback = TRUE
    /\ sourceNode = 1
    /\ micRequests = 0
    /\ openStreams = {1}
    /\ connectedSources = {1}
    /\ rafPending = <<1>>
    /\ freq = NoPitch
    /\ pitchCalls = 0
    /\ micError = FALSE
    /\ tunerPromise = "fulfilled"
    /\ tunerCall = "start"
    /\ tunerCalls = 1
    /\ InitApp
    /\ InitPure
    /\ buffer \in AllFrames
    /\ op = "init"

\* The display frame in which detectPitch reads the frame the analyser holds.
AnalyseFrame ==
    /\ op = "init"
    /\ LET t == RunCallbacks([Tuner EXCEPT !.rafPending = <<>>, !.pitchCalls = 0],
                             Len(rafPending), buffer, tunerCallback)
       IN  /\ tunerFrameId' = t.tunerFrameId
           /\ rafPending' = t.rafPending
           /\ freq' = t.freq
           /\ pitchCalls' = t.pitchCalls
    /\ scan' = ScanOf(buffer)
    /\ op' = "detectPitch"
    /\ UNCHANGED <<analyser, microphoneStream, tunerCallback, sourceNode, micRequests,
                   openStreams, connectedSources, buffer, micError, tunerPromise,
                   tunerCall, tunerCalls>>
    /\ UNCHANGED <<metroVars, appVars, displayVars, frequency, estimate, line>>

NextAuto == AnalyseFrame

SpecAuto == InitAuto /\ [][NextAuto]_vars

\* freqToNote on every frequency of the model: zero, a negative frequency,
\* and the positive frequencies whose pitch number is within MaxPitch
\* semitones of zero, in steps of a hundredth of a semitone.
Frequencies ==
    {[sign |-> 1, rel |-> h - A4Pitch * CentsPerSemitone] :
        h \in (0 - MaxPitch * CentsPerSemitone)..(MaxPitch * CentsPerSemitone)}
    \cup {[sign |-> 0, rel |-> 0], [sign |-> 0 - 1, rel |-> 0]}

InitNote ==
    /\ InitMetro
    /\ InitTuner
    /\ InitApp
    /\ buffer = Silence
    /\ frequency \in Frequencies
    /\ estimate = [note |-> "", cents |-> 0, centsIsNaN |-> FALSE]
    /\ line = <<>>
    /\ scan = NoScan
    /\ op = "init"

MapNote ==
    /\ op = "init"
    /\ estimate' = FreqToNote(frequency)
    /\ op' = "freqToNote"
    /\ UNCHANGED <<metroVars, tunerVars, appVars, displayVars, frequency, line, scan>>

NextMapNote == MapNote

SpecNote == InitNote /\ [][NextMapNote]_vars

\* The telemetry handler on every line of the model: up to MaxFields fields
\* with different keys, in any order, each with one of two values.
FieldsOf ==
    {Field("BEAT", 20, ""), Field("BEAT", 30, ""),
     Field("FREQ", 4400, ""), Field("FREQ", 2205, ""),
     Field("NOTE", 0, "A"), Field("NOTE", 0, "C#"),
     Field("CENTS", 0 - 75, ""), Field("CENTS", 120, "")}

Lines ==
    UNION {{l \in [1..n -> FieldsOf] :
               \A i, j \in 1..n : i # j => l[i].key # l[j].key} : n \in 1..MaxFields}

InitParse ==
    /\ InitMetro
    /\ InitTuner
    /\ InitApp
    /\ buffer = Silence
    /\ frequency = [sign |-> 1, rel |-> 0]
    /\ estimate = [note |-> "", cents |-> 0, centsIsNaN |-> FALSE]
    /\ line \in Lines
    /\ scan = NoScan
    /\ op = "init"

\* The Bluetooth service hands the line to the callback.
DataReceived ==
    /\ op = "init"
    /\ OnDataReceived(line)
    /\ op' = "dataReceived"
    /\ UNCHANGED <<metroVars, tunerVars, appVars, pureVars>>

NextParse == DataReceived

SpecParse == InitParse /\ [][NextParse]_vars

\* The application: the user's gestures, the Bluetooth link's events and the
\* host's callbacks into the engine.
NextApp ==
    \/ PressStartStop
    \/ \E newBpm \in BpmInputs : ChangeBPM(newBpm)
    \/ PressToggleTuner
    \/ \E tab \in {"metronome", "tuner"} : SelectTab(tab)
    \/ PressBluetooth
    \/ ConnectSucceeds
    \/ \E stage \in ConnectStages : ConnectFails(stage)
    \/ LinkLost
    \/ SchedulerTimerFires
    \/ BeatTimerFires
    \/ Tick
    \/ MicGranted
    \/ MicDenied
    \/ AnimationFrame

SpecApp == Init /\ [][NextApp]_vars

\* ----------------------------------------------------------------- claims
\* C1: the beat numbers handed to scheduleNote since startMetronome are
\* 1,2,3,4,1,2,3,4,...: the i-th is ((i - 1) mod 4) + 1, none skipped and none
\* repeated, the first beats after the start included.
C1_BeatsInOrder ==
    \A i \in 1..Len(beats) : beats[i] = ((i - 1) % BeatsPerBar) + 1

\* C2: after any sequence of startMetronome/stopMetronome/updateBPM calls at
\* most one scheduler timer is pending: a restart cancels the timer armed
\* before it.
C2_OneSchedulerTimer == NumSchedTimers(timers) <= 1

\* C5: the tempo the engine stores, which nextNote divides by, is strictly
\* positive in every reachable state.
C5_TempoPositive == bpm > 0

\* C6: in the state right after a stopMetronome call that ends a run in which
\* a beat had been reached, the beat cursor is 1.
C6_StopResetsBeatCursor ==
    (op = "stopMetronome" /\ Len(beats) > 0) => currentBeatInBar = 1

\* C7: onBeat is invoked only while the last of startMetronome/stopMetronome
\* to have returned is startMetronome: never between a stop and the next
\* start, not even by a notification timer that was pending at the stop.
C7_NoBeatAfterStop == op = "onBeat" => metroCall = "start"

\* C7 witness: a notification timer that was still pending when stopMetronome
\* returned has run, and made no onBeat call.
C7_Witness ==
    /\ op = "beatTimerSkipped"
    /\ metroCall = "stop"
    /\ beatCallback

\* C8: an updateBPM call changes no click already handed to scheduleNote: the
\* oscillators (beat number, audio-clock time) and the armed notification
\* timers (with their firing times) are the same after the call as before.
C8_UpdateKeepsScheduledClicks ==
    [][op' = "updateBPM" => (oscillators' = oscillators /\ timers' = timers)]_vars

\* C8 witness: updateBPM has changed the tempo while a click was scheduled and
\* its notification still armed.
C8_Witness ==
    /\ op = "updateBPM"
    /\ isMetronomePlaying
    /\ oscillators # {}
    /\ \E i \in 1..Len(timers) : timers[i].kind = "beat" /\ timers[i].due > now
    /\ bpm = 1200

\* C3: however startTuner is called, at most one detectPitch callback is
\* pending, at most one microphone stream is open and onPitch is invoked at
\* most once in a display frame.
C3_OneDetectionLoop ==
    /\ Len(rafPending) <= 1
    /\ Cardinality(openStreams) <= 1
    /\ pitchCalls <= 1

\* C4: while stopTuner is the last of startTuner/stopTuner to have returned,
\* no microphone stream is open and no detection loop is pending.
C4_StoppedTunerHoldsNothing ==
    tunerCall = "stop" => (openStreams = {} /\ Len(rafPending) = 0)

\* The least p with buf[i] = buf[i + p] for every i, or 0 when there is none
\* below the frame length.
Period(buf) ==
    LET ps == {p \in 1..(Len(buf) - 1) :
                  \A i \in 1..(Len(buf) - p) : buf[i] = buf[i + p]}
    IN  IF ps = {} THEN 0 ELSE CHOOSE p \in ps : \A q \in ps : p <= q

\* C9: when microphone access cannot be acquired, the promise startTuner
\* returned is rejected, and the application is not left showing the tuner
\* as active in standalone mode with no request pending and no detection loop.
C9_MicFailureSurfaced ==
    op = "micDenied" =>
       /\ tunerPromise = "rejected"
       /\ ~(mode = "standalone" /\ isTunerActive /\ micRequests = 0
            /\ Len(rafPending) = 0)

\* C10: for a frame that passes the noise gate and is exactly periodic with
\* period P, 2 <= P < length / 2, autoCorrelate returns sampleRate / lag with
\* the lag within one sample of P, and detectPitch invokes onPitch.
C10_PeriodicFrameGivesPitch ==
    (/\ op = "detectPitch"
     /\ ~TooWeak(buffer)
     /\ Period(buffer) >= 2
     /\ 2 * Period(buffer) < Len(buffer))
    => /\ freq.kind = "lag"
       /\ freq.den > 0
       /\ Abs(freq.num - Period(buffer) * freq.den) <= freq.den
       /\ pitchCalls = 1

\* The frame's RMS amplitude is below 0.01: the mean of the squares of its
\* samples, which are in thousandths, is below 10 * 10.
BelowGate(buf) == SumSeq([i \in 1..Len(buf) |-> buf[i] * buf[i]]) < 100 * Len(buf)

\* C11: for a frame whose RMS amplitude is below the 0.01 gate, the all-zero
\* frame included, autoCorrelate returns the no-pitch value -1, which only the
\* gate returns before the lag scan, and detectPitch does not invoke onPitch.
C11_WeakFrameGivesNoPitch ==
    (op = "detectPitch" /\ BelowGate(buffer)) => (freq = NoPitch /\ pitchCalls = 0)

\* C11 witness: detectPitch has read a frame that is not silent and yet is
\* under the gate.
C11_Witness ==
    /\ op = "detectPitch"
    /\ BelowGate(buffer)
    /\ buffer # Silence
    /\ freq = NoPitch

\* The pitch number of the frequency handed to freqToNote, in hundredths of a
\* semitone (69 semitones for 440 Hz).
PitchNumber == frequency.rel + 6900

\* C12: for every positive frequency freqToNote rounds the pitch number to
\* the nearest semitone: cents is a number, the pitch number less cents is a
\* whole semitone, and -50 <= cents < 50.
C12_CentsWithinHalfSemitone ==
    (op = "freqToNote" /\ frequency.sign = 1) =>
       /\ ~estimate.centsIsNaN
       /\ (PitchNumber - estimate.cents) % 100 = 0
       /\ estimate.cents >= 0 - 50
       /\ estimate.cents < 50

\* C12 witness: freqToNote has mapped a pitch number exactly half way between
\* two semitones, and one below zero, with cents -50.
C12_Witness ==
    /\ op = "freqToNote"
    /\ frequency.sign = 1
    /\ PitchNumber % 100 = 50
    /\ PitchNumber < 0
    /\ estimate.cents = 0 - 50

\* C13: for every positive frequency the note is the name at the rounded
\* pitch number modulo 12, the modulus taken non-negative, also when the
\* rounded pitch number is negative; 440 Hz maps to A with cents 0.
C13_NoteIsPitchClass ==
    (op = "freqToNote" /\ frequency.sign = 1) =>
       /\ estimate.note = NoteStrings[(((PitchNumber + 50) \div 100) % 12) + 1]
       /\ frequency.rel = 0 => (estimate.note = "A" /\ estimate.cents = 0)

\* C14: for a zero or negative frequency freqToNote returns no note (the
\* empty name, not an undefined lookup) and cents 0, a number.
C14_NonPositiveFailsGracefully ==
    (op = "freqToNote" /\ frequency.sign # 1) =>
       /\ estimate.note = ""
       /\ ~estimate.centsIsNaN
       /\ estimate.cents = 0

\* The local metronome loop is running: a poll of the scheduler is pending.
LocalMetronomeRunning == NumSchedTimers(timers) > 0

\* The local detection loop is running: a detectPitch callback is pending.
LocalTunerRunning == Len(rafPending) > 0

\* C15: in every state of the application the local metronome loop is not
\* running while the device has been told START_METRO and not yet
\* STOP_METRO, and the local detector is not running while the device has
\* been told START_TUNER and not yet STOP_TUNER.
C15_LocalAndRemoteExclusive ==
    /\ ~(LocalMetronomeRunning /\ remoteMetro)
    /\ ~(LocalTunerRunning /\ remoteTuner)

\* C16: the application is in connected mode only while the Bluetooth
\* service has a usable link (a device, its GATT server connected, and the
\* write characteristic commands go to): a failed connect and a link that
\* drops on its own both take the application out of connected mode.
C16_ConnectedModeHasLink ==
    mode = "connected" => (device /\ gattConnected /\ rxCharacteristic)

\* C18: after any presses and tab switches the local metronome loop and the
\* local detection loop are never both running.
C18_OneLocalSubsystem == ~(LocalMetronomeRunning /\ LocalTunerRunning)

\* The value of the line's field with the key, parsed, or the default.
FreqOf(l) == IF Find(l, "FREQ") = <<>> THEN 0 ELSE Find(l, "FREQ")[1].num
NoteOf(l) == IF Find(l, "NOTE") = <<>> THEN "" ELSE Find(l, "NOTE")[1].text
CentsOf(l) ==
    IF Find(l, "CENTS") = <<>> THEN 0
    ELSE LET c == Find(l, "CENTS")[1].num
         IN  IF c >= 0 THEN c \div 10 ELSE 0 - ((0 - c) \div 10)

\* C17: for a line made of FREQ, NOTE and CENTS fields only, at least one of
\* them, in any order, the handler sets the tuner data to the value of each
\* field that is there and to 0, "" and 0 for a field that is not; the line is
\* not ignored when FREQ is missing or is not the first field.
C17_TelemetryFieldsAnyOrder ==
    (/\ op = "dataReceived"
     /\ \A i \in 1..Len(line) : line[i].key \in {"FREQ", "NOTE", "CENTS"})
    => tunerData = [frequency |-> FreqOf(line), noteName |-> NoteOf(line),
                    cents |-> CentsOf(line), isActive |-> TRUE]

\* C19: a scheduler pass that runs while the metronome is not playing hands
\* no click to scheduleNote: the pass of a timer still pending after
\* stopMetronome schedules nothing.
C19_StoppedPassSchedulesNothing ==
    [][(op' = "scheduler" /\ ~isMetronomePlaying') => beats' = beats]_vars

\* The clicks a step hands to the audio clock.
NewClicks == oscillators' \ oscillators

\* C20: a scheduler pass at a valid tempo schedules every due click once:
\* the n clicks it schedules are at the next note time and every 60/tempo
\* after it, each before the end of the 100 ms window, and the pass leaves the
\* next note time n intervals on and at or after the end of the window,
\* however late the pass runs.
C20_PassSchedulesAllDueClicks ==
    [][(op' = "scheduler" /\ bpm > 0 /\ ~hung') =>
          LET n == Cardinality(NewClicks)
              spb == SecondsPerBeat(bpm)
          IN  /\ nextNoteTime' = nextNoteTime + n * spb
              /\ {o.time : o \in NewClicks} = {nextNoteTime + k * spb : k \in 0..(n - 1)}
              /\ \A o \in NewClicks : o.time < now + ScheduleAheadTime
              /\ nextNoteTime' >= now + ScheduleAheadTime]_vars

\* C20 witness: the first pass after the only start ran a tick late and
\* scheduled two clicks (the timer handle is the second one, so one pass has
\* run), one interval apart.
C20_Witness ==
    /\ op = "scheduler"
    /\ calls = 1
    /\ timerID = 2
    /\ bpm = 2400
    /\ Len(beats) = 2
    /\ Len(timers) = 3
    /\ timers[2].time = timers[1].time + 1
    /\ nextNoteTime = timers[2].time + 1

\* The click before the click o among the clicks cs: the latest of the
\* earlier ones, or none.
Predecessors(cs, o) == {p \in cs : p.time < o.time}
Predecessor(cs, o) ==
    CHOOSE p \in Predecessors(cs, o) : \A q \in Predecessors(cs, o) : q.time <= p.time

\* C21: every click a scheduler pass of a run schedules after an earlier click
\* of the run is placed 60/T seconds after its predecessor, T being the tempo
\* the latest startMetronome or updateBPM call stored: after updateBPM(T') the
\* first click not yet scheduled is already 60/T' after the last scheduled one.
C21_NewTempoFromNextBeat ==
    [][(/\ op' = "scheduler"
        /\ isMetronomePlaying
        /\ bpm > 0
        /\ ~hung'
        /\ Len(beats) > 0
        /\ oscillators # {})
       => \A o \in NewClicks :
             o.time = Predecessor(oscillators', o).time + SecondsPerBeat(bpm)]_vars

\* C22: every onBeat call is for a click whose scheduled time is later than
\* that of the click of the onBeat call before it, and is made at or after
\* the click's scheduled time on the audio clock, never before it.
C22_BeatsNotifiedInTimeOrder ==
    [][op' = "onBeat" =>
          /\ lastOnBeat'.time <= now'
          /\ lastOnBeat.beat # 0 => lastOnBeat'.time > lastOnBeat.time]_vars

\* C22 witness: in a run of one start the second click, one interval after
\* the first, has been notified after the first, at its scheduled time.
C22_Witness ==
    /\ op = "onBeat"
    /\ calls = 1
    /\ Len(beats) >= 2
    /\ lastOnBeat.time = StartDelay + SecondsPerBeat(bpm)
    /\ lastOnBeat.time = now

\* The lags below `offset` whose correlation is above the 0.9 threshold.
GoodLags(buf, offset) == {k \in 0..(offset - 1) : IsGood(buf, Correlation(buf, k))}

\* C23: when the lag scan returns from inside the loop, the lag it is at has
\* a correlation not above the 0.9 threshold and a smaller lag had one above
\* it (a lag still above the threshold never ends the scan), and the lag
\* refined is the one with the highest correlation among the lags seen so far
\* that were above the threshold.
C23_ScanStopsBelowThreshold ==
    (op = "detectPitch" /\ scan.how = "early") =>
       /\ ~IsGood(buffer, Correlation(buffer, scan.offset))
       /\ scan.best_offset \in GoodLags(buffer, scan.offset)
       /\ \A k \in GoodLags(buffer, scan.offset) :
             Correlation(buffer, k) <= Correlation(buffer, scan.best_offset)

\* C24: the beat cursor is one of 1, 2, 3, 4 in every reachable state, the
\* state after construction and the state after startMetronome included.
C24_BeatCursorInBar == currentBeatInBar \in 1..BeatsPerBar

\* C25: every scheduler pass returns: whatever tempo startMetronome or
\* updateBPM has stored, zero and negative tempos included, no pass is left
\* looping in the while loop for ever.
C25_PassTerminates == ~hung

\* C26: every onBeat call is for a click handed to scheduleNote after the
\* latest startMetronome call, that is a click at or after the first note
\* time that call set (the clicks scheduled before it are all earlier than
\* that): a notification armed in an earlier session is not delivered.
C26_NoBeatFromEarlierSession ==
    op = "onBeat" => lastOnBeat.time >= sessionStart + StartDelay

\* C27: whenever autoCorrelate refines the best lag (the return inside the
\* loop) or converts it to a frequency (after the loop), the best lag is at
\* least 1 and at most the frame length less 2, and the entry after it has
\* been computed: correlations[best - 1] and correlations[best + 1] are
\* entries of the array the scan has filled, and the lag is not 0.
C27_BestLagInRange ==
    (op = "detectPitch" /\ (scan.how = "early" \/ scan.converted)) =>
       /\ scan.best_offset >= 1
       /\ scan.best_offset <= Len(buffer) - 2
       /\ scan.how = "early" => scan.best_offset + 1 <= scan.offset

====
